---- MODULE Spec2Model ----
(***************************************************************************)
(* chauffeur.py: expansion of a parameter space into run instances,        *)
(* interpolation of %(name) references, and the threaded dispatcher.       *)
(*                                                                         *)
(* Three specifications:                                                   *)
(*   Spec         the dispatcher: main thread, runqueue, worker threads    *)
(*   SpecProduct  initRunData's validation followed by generateProduct     *)
(*   SpecInterp   interpolateString / evaluateStr as a stack machine       *)
(***************************************************************************)
EXTENDS Integers, Sequences, FiniteSets, TLC

\* ---- the dispatcher ----
VARIABLES
    cfg,          \* the 'driver' section of the parsed YAML document
    nRuns,        \* len(runs): number of run instances after expansion
    badRuns,      \* instances whose rundir reference does not resolve
    fileData,     \* the file definitions' type tags, in key order
    driverData,   \* global driverData
    wetRun,       \* global wetRun
    mainpc,       \* position of the main thread
    mainI,        \* loop index of the main thread (runs put / threads started)
    runqueue,     \* queue.Queue(): run instance ids and None sentinels
    wpc,          \* position of each worker thread
    data,         \* worker-local 'data' (instance being processed)
    fileI,        \* worker-local position in the processFiles loop
    effects,      \* side effects performed so far: <<kind, instance>>
    pbsFiles,     \* global pbsFiles
    script,       \* lines written by constructPbsSubmitScript (<<>>: no file)
    getCount,     \* history: how often each instance was dequeued
    sentinels,    \* history: sentinels consumed by each worker
    abortCalled,  \* history: abort() has been called by some worker
    children      \* the child processes running: <<worker, command, instance>>

dvars == <<cfg, nRuns, badRuns, fileData, driverData, wetRun, mainpc, mainI,
           runqueue, wpc, data, fileI, effects, pbsFiles, script, getCount,
           sentinels, abortCalled, children>>

\* ---- the run-space expansion ----
VARIABLES
    rdata,        \* cfg[key] of one run section: variables, variableorder, parameters
    ppc,          \* position of the main thread in the expansion
    tmp           \* the list generateProduct returned, then updated

pvars == <<rdata, ppc, tmp>>

\* ---- the interpolation ----
VARIABLES
    userData,     \* global userData
    inputData,    \* argument inputData (Absent: None)
    inputFmt,     \* argument inputFmt (NoFmt: None)
    template,     \* inStr of the outermost call
    round,        \* 1: the call on the template; 2: the call on its result
    first,        \* what the call of round 1 returned
    stack,        \* the frames of the calls of interpolateString in progress
    arg,          \* inStr of the call being entered
    nCalls,       \* nCalls of the call being entered
    ipc,          \* enter, loop, resume, returned, aborted, raised
    ret,          \* value returned by the call that ended last
    err,          \* which abort was called
    tokens        \* history: <<name, value found>> of every name looked up

ivars == <<userData, inputData, inputFmt, template, round, first, stack, arg,
           nCalls, ipc, ret, err, tokens>>

\* ---- the expression evaluator ----
VARIABLES
    evalArg,      \* inStr of a call of evaluateStr
    evalpc,       \* call, returned, failed
    evalRet       \* what the call returned, or how it failed

evars == <<evalArg, evalpc, evalRet>>

\* ---- the file renderer ----
VARIABLES
    cdata,        \* cfg[key] of one file section
    instanceData, \* the run instance handed to processSingleFile
    fileRec,      \* fileData[key] as initFileData stores it
    renderData,   \* processSingleFile's local 'data' after the merge
    fpc           \* initFileData, processSingleFile, rendered, raised

fvars == <<cdata, instanceData, fileRec, renderData, fpc>>

\* ---- the driver section ----
VARIABLES
    section,      \* cfg['driver'] as the key loop walks it: <<key, value>> pairs
    keyI,         \* position of the key loop in the section
    kpc           \* defaults, keys, done, aborted

kvars == <<section, keyI, kpc>>

vars == <<dvars, pvars, ivars, evars, fvars, kvars>>

\* what the steps of one part leave alone
DFrame == UNCHANGED <<pvars, ivars, evars, fvars, kvars>>
PFrame == UNCHANGED <<dvars, ivars, evars, fvars, kvars>>
IFrame == UNCHANGED <<cfg, nRuns, badRuns, fileData, driverData, wetRun, mainpc,
                      mainI, runqueue, wpc, data, fileI, effects, pbsFiles,
                      script, getCount, sentinels, abortCalled, children,
                      pvars, evars, fvars, kvars>>
EFrame == UNCHANGED <<dvars, pvars, ivars, fvars, kvars>>
FFrame == UNCHANGED <<dvars, pvars, ivars, evars, kvars>>
KFrame == UNCHANGED <<cfg, nRuns, badRuns, fileData, wetRun, mainpc, mainI,
                      runqueue, wpc, data, fileI, effects, pbsFiles, script,
                      getCount, sentinels, abortCalled, children,
                      pvars, ivars, evars, fvars>>


(***************************************************************************)
(* Bounds of the dispatcher model                                          *)
(***************************************************************************)
\* worker threads plus run instances of one program run
MaxWork == 4

None == "None"

Range(s) == {s[i] : i \in 1..Len(s)}

\* what the queue holds: a run instance (here its index in runs), or None
Item(r) == <<r>>
Sentinel == <<>>

(***************************************************************************)
(* ======================  THE DISPATCHER  ==============================  *)
(***************************************************************************)

Workers == 1..MaxWork
Runs == 1..MaxWork

FsKinds == {"copytree", "mkdir", "write"}
ProcKinds == {"pre", "exec", "post"}

\* the driver keys the dispatcher reads, with initDriverData's defaults
DriverDefaults ==
    [executable |-> None, templatedir |-> None, type |-> "exec",
     dryrun |-> TRUE, nthreads |-> 1,
     precommand |-> None, execcommand |-> None, postcommand |-> None]

\* the configurations the model draws the 'driver' section from: every
\* combination of the keys the worker reads, without the ones that differ
\* only in keys the worker never gets to read (the commands of a setup-only
\* run, the exec and post commands of a run without executable)
Configs ==
    {c \in [executable : {None, "x"}, templatedir : {None, "t"},
            type : {"exec", "setup"}, dryrun : BOOLEAN,
            nthreads : 1..MaxWork, precommand : {None, "p"},
            execcommand : {None, "e"}, postcommand : {None, "q"}] :
        /\ c.type = "setup" =>
              /\ c.executable = None
              /\ c.precommand = None
        /\ c.executable = None =>
              /\ c.execcommand = None
              /\ c.postcommand = None
        /\ c.executable # None =>
              (c.precommand = None <=> c.postcommand = None)}

\* a file definition as initFileData stores it: the type tag, and the
\* static parameters, None when the section declares none
FileDef(t, p) == [type |-> t, parameters |-> p]

\* the file sections: at least one (initFileData aborts without), each of
\* type 'pbs' or of another type
FileDefs ==
    {<<FileDef("other", "p")>>,
     <<FileDef("pbs", "p"), FileDef("pbs", "p")>>,
     <<FileDef("other", None)>>}

\* the module-level globals as the import leaves them
DStart ==
    /\ wetRun = TRUE
    /\ mainpc = "init"
    /\ mainI = 0
    /\ runqueue = <<>>
    /\ wpc = [w \in Workers |-> "unstarted"]
    /\ data = [w \in Workers |-> 0]
    /\ fileI = [w \in Workers |-> 0]
    /\ effects = {}
    /\ pbsFiles = <<>>
    /\ script = <<>>
    /\ getCount = [r \in Runs |-> 0]
    /\ sentinels = [w \in Workers |-> 0]
    /\ abortCalled = FALSE
    /\ children = {}

DInit ==
    /\ cfg \in Configs
    /\ nRuns \in 0..(MaxWork - cfg.nthreads)
    /\ badRuns \in {{}} \cup {{r} : r \in 1..nRuns}
    /\ fileData \in FileDefs
    /\ driverData = DriverDefaults
    /\ DStart

\* the dispatcher's variables in the specifications that do not run it
\* (driverData apart, which interpolateString reads)
DIdle ==
    /\ cfg = DriverDefaults
    /\ nRuns = 0
    /\ badRuns = {}
    /\ fileData = <<FileDef("other", "p")>>
    /\ DStart

(***************************************************************************)
(* Main thread                                                             *)
(***************************************************************************)

\* initDriverData: defaults overwritten by the configured values. The last
\* statement, "wetRun = not driverData['dryrun']", has no "global wetRun":
\* it binds a local of initDriverData and the module-level wetRun keeps the
\* value it was given at import.
initDriverData ==
    /\ mainpc = "init"
    /\ driverData' = [k \in DOMAIN DriverDefaults |-> cfg[k]]
    /\ wetRun' = wetRun
    /\ mainpc' = "fill"
    /\ mainI' = 1
    /\ UNCHANGED <<cfg, nRuns, children, badRuns, fileData, runqueue, wpc, data, fileI,
                   effects, pbsFiles, script, getCount, sentinels,
                   abortCalled>>
    /\ DFrame

\* for r in runs: runqueue.put(r)
PutRun ==
    /\ mainpc = "fill"
    /\ mainI <= nRuns
    /\ runqueue' = Append(runqueue, Item(mainI))
    /\ mainI' = mainI + 1
    /\ UNCHANGED <<cfg, nRuns, children, badRuns, fileData, driverData, wetRun, mainpc,
                   wpc, data, fileI, effects, pbsFiles, script, getCount, sentinels, abortCalled>>
    /\ DFrame

\* the run loop is exhausted; the thread list is built
FillDone ==
    /\ mainpc = "fill"
    /\ mainI > nRuns
    /\ mainpc' = "start"
    /\ mainI' = 1
    /\ UNCHANGED <<cfg, nRuns, children, badRuns, fileData, driverData, wetRun,
                   runqueue, wpc, data, fileI, effects, pbsFiles, script,
                   getCount, sentinels, abortCalled>>
    /\ DFrame

\* thread.start() for the next thread of the list
StartThread ==
    /\ mainpc = "start"
    /\ mainI <= driverData.nthreads
    /\ wpc' = [wpc EXCEPT ![mainI] = "get"]
    /\ mainpc' = "sentinel"
    /\ UNCHANGED <<cfg, nRuns, children, badRuns, fileData, driverData, wetRun, mainI,
                   runqueue, data, fileI, effects, pbsFiles, script, getCount, sentinels, abortCalled>>
    /\ DFrame

\* PutSentinel for a start loop that puts no EOF marker
PutSentinelLost ==
    /\ mainpc = "sentinel"
    /\ runqueue' = runqueue
    /\ mainI' = mainI + 1
    /\ mainpc' = "start"
    /\ UNCHANGED <<cfg, nRuns, children, badRuns, fileData, driverData, wetRun, wpc,
                   data, fileI, effects, pbsFiles, script, getCount,
                   sentinels, abortCalled>>
    /\ DFrame

\* runqueue.put(None): one EOF marker for the thread just started
PutSentinel ==
    /\ mainpc = "sentinel"
    /\ runqueue' = Append(runqueue, Sentinel)
    /\ mainI' = mainI + 1
    /\ mainpc' = "start"
    /\ UNCHANGED <<cfg, nRuns, children, badRuns, fileData, driverData, wetRun, wpc,
                   data, fileI, effects, pbsFiles, script, getCount,
                   sentinels, abortCalled>>
    /\ DFrame

StartDone ==
    /\ mainpc = "start"
    /\ mainI > driverData.nthreads
    /\ mainpc' = "poll"
    /\ UNCHANGED <<cfg, nRuns, children, badRuns, fileData, driverData, wetRun, mainI,
                   runqueue, wpc, data, fileI, effects, pbsFiles, script,
                   getCount, sentinels, abortCalled>>
    /\ DFrame

Threads == 1..driverData.nthreads

\* Thread.isAlive(), as the Python 3 releases up to 3.8 define it: started
\* and its run() has not ended (by return or by an exception such as
\* SystemExit)
isAlive(w) == wpc[w] \notin {"unstarted", "done", "aborted", "raised"}

\* allAlive as the supervising loop computes it: False as soon as one thread
\* of the list is not alive
allAlive == \A w \in Threads : isAlive(w)

\* one round of the supervising loop that ends in the break; a round that
\* finds allAlive true changes nothing and loops
Poll ==
    /\ mainpc = "poll"
    /\ ~allAlive
    /\ mainpc' = "pbs"
    /\ UNCHANGED <<cfg, nRuns, children, badRuns, fileData, driverData, wetRun, mainI,
                   runqueue, wpc, data, fileI, effects, pbsFiles, script,
                   getCount, sentinels, abortCalled>>
    /\ DFrame

\* the script constructPbsSubmitScript writes: the header line, then one
\* "cd <path> && <subcommand> <file> && cd -" line per entry of pbsFiles, in
\* list order
PbsHeader == <<"#!/bin/bash">>
PbsLines == <<PbsHeader>> \o [i \in 1..Len(pbsFiles) |-> <<"cd", pbsFiles[i]>>]

\* constructPbsSubmitScript(), then the main thread falls off the end of the
\* module: the process exits and the daemon threads die with it
constructPbsSubmitScript ==
    /\ mainpc = "pbs"
    /\ script' = IF pbsFiles = <<>> THEN script ELSE PbsLines
    /\ mainpc' = "exit"
    /\ UNCHANGED <<cfg, nRuns, children, badRuns, fileData, driverData, wetRun, mainI,
                   runqueue, wpc, data, fileI, effects, pbsFiles, getCount, sentinels, abortCalled>>
    /\ DFrame

(***************************************************************************)
(* Worker threads                                                          *)
(***************************************************************************)

\* a daemon thread runs only while the process is alive
Running(w) == mainpc # "exit" /\ isAlive(w)

\* abort(msg): logger.critical, then sys.exit(1). In a thread other than the
\* main thread sys.exit raises SystemExit in that thread only: the thread's
\* run() ends, the exception is dropped by threading, the process lives on.
abort(w) ==
    /\ wpc' = [wpc EXCEPT ![w] = "aborted"]
    /\ abortCalled' = TRUE

\* Get with a queue whose get() leaves a run instance at the head
GetKeepsItem(w) ==
    /\ Running(w)
    /\ wpc[w] = "get"
    /\ runqueue # <<>>
    /\ IF Head(runqueue) = Sentinel
         THEN /\ runqueue' = Tail(runqueue)
              /\ wpc' = [wpc EXCEPT ![w] = "done"]
              /\ sentinels' = [sentinels EXCEPT ![w] = @ + 1]
              /\ UNCHANGED <<data, getCount>>
         ELSE /\ runqueue' = runqueue
              /\ wpc' = [wpc EXCEPT ![w] = "workdir"]
              /\ data' = [data EXCEPT ![w] = Head(runqueue)[1]]
              /\ getCount' = [getCount EXCEPT ![Head(runqueue)[1]] = @ + 1]
              /\ UNCHANGED sentinels
    /\ UNCHANGED <<cfg, nRuns, children, badRuns, fileData, driverData, wetRun, mainpc,
                   mainI, fileI, effects, pbsFiles, script, abortCalled>>
    /\ DFrame

\* data = runqueue.get(); if data is None: return
Get(w) ==
    /\ Running(w)
    /\ wpc[w] = "get"
    /\ runqueue # <<>>
    /\ runqueue' = Tail(runqueue)
    /\ IF Head(runqueue) = Sentinel
         THEN /\ wpc' = [wpc EXCEPT ![w] = "done"]
              /\ sentinels' = [sentinels EXCEPT ![w] = @ + 1]
              /\ UNCHANGED <<data, getCount>>
         ELSE /\ wpc' = [wpc EXCEPT ![w] = "workdir"]
              /\ data' = [data EXCEPT ![w] = Head(runqueue)[1]]
              /\ getCount' = [getCount EXCEPT ![Head(runqueue)[1]] = @ + 1]
              /\ UNCHANGED sentinels
    /\ UNCHANGED <<cfg, nRuns, children, badRuns, fileData, driverData, wetRun, mainpc,
                   mainI, fileI, effects, pbsFiles, script, abortCalled>>
    /\ DFrame

\* AfterFiles for a loop body whose post-command block comes first
AfterFilesPostFirst == IF driverData.type \in {"param_only", "setup"} THEN "get" ELSE "post"

\* where the loop body goes after processFiles: "continue" for the setup
\* types, the pre-command otherwise
AfterFiles == IF driverData.type \in {"param_only", "setup"} THEN "get" ELSE "pre"

\* the side effects of the loop body between the dequeue and processFiles:
\* the resolved path is logged; copytree when a template directory is
\* configured and wetRun; mkdir when wetRun and the copy did not already
\* create the directory
PrepareEffects(r) ==
    {<<"workdir", r>>}
      \cup (IF driverData.templatedir # None /\ wetRun
              THEN {<<"copytree", r>>} ELSE {})
      \cup (IF wetRun /\ driverData.templatedir = None
              THEN {<<"mkdir", r>>} ELSE {})

\* workDir = resolveAbsPath(interpolateString(driverData['rundir'],data)),
\* where interpolateString aborts when a reference does not resolve; then
\* the templatedir block and, under wetRun, the creation of the run
\* directory. Without wetRun the loop body ends here.
PrepareWorkDir(w) ==
    /\ Running(w)
    /\ wpc[w] = "workdir"
    /\ IF data[w] \in badRuns
         THEN /\ abort(w)
              /\ UNCHANGED <<effects, fileI>>
         ELSE /\ effects' = effects \cup PrepareEffects(data[w])
              /\ wpc' = [wpc EXCEPT ![w] = IF wetRun THEN "files" ELSE "get"]
              /\ fileI' = [fileI EXCEPT ![w] = 1]
              /\ UNCHANGED abortCalled
    /\ UNCHANGED <<cfg, nRuns, children, badRuns, fileData, driverData, wetRun, mainpc,
                   mainI, runqueue, data, pbsFiles, script, getCount,
                   sentinels>>
    /\ DFrame

\* where the worker goes after the file at position i of fileData
AfterFile(i) == IF i = Len(fileData) THEN AfterFiles ELSE "files"

\* processSingleFile for the next key of fileData, up to the write of the
\* output file. The merge {**data, **fileData[fileKey]['parameters']} raises
\* TypeError when the parameters are None: the exception ends the worker
\* thread. For type 'pbs' the append to pbsFiles is a later statement,
\* which other threads can run ahead of.
processSingleFile(w) ==
    /\ Running(w)
    /\ wpc[w] = "files"
    /\ fileI[w] <= Len(fileData)
    /\ IF fileData[fileI[w]].parameters = None
         THEN /\ wpc' = [wpc EXCEPT ![w] = "raised"]
              /\ UNCHANGED <<effects, fileI>>
         ELSE /\ effects' = effects \cup {<<"write", data[w], fileI[w]>>}
              /\ IF fileData[fileI[w]].type = "pbs"
                   THEN /\ wpc' = [wpc EXCEPT ![w] = "record"]
                        /\ UNCHANGED fileI
                   ELSE /\ wpc' = [wpc EXCEPT ![w] = AfterFile(fileI[w])]
                        /\ fileI' = [fileI EXCEPT ![w] = @ + 1]
    /\ UNCHANGED <<cfg, nRuns, children, badRuns, fileData, driverData, wetRun, mainpc,
                   mainI, runqueue, data, pbsFiles, script, getCount, sentinels,
                   abortCalled>>
    /\ DFrame

\* the end of processSingleFile for a file of type 'pbs':
\* pbsFiles.append(outputFile)
RecordPbsFile(w) ==
    /\ Running(w)
    /\ wpc[w] = "record"
    /\ pbsFiles' = Append(pbsFiles, <<data[w], fileI[w]>>)
    /\ fileI' = [fileI EXCEPT ![w] = @ + 1]
    /\ wpc' = [wpc EXCEPT ![w] = AfterFile(fileI[w])]
    /\ UNCHANGED <<cfg, nRuns, children, badRuns, fileData, driverData, wetRun, mainpc,
                   mainI, runqueue, data, effects, script, getCount, sentinels,
                   abortCalled>>
    /\ DFrame

\* a command block of the loop body: Popen when the command is configured
StartCommand(w, at, key, waitpc, skippc) ==
    /\ Running(w)
    /\ wpc[w] = at
    /\ IF driverData[key] # None
         THEN /\ effects' = effects \cup {<<at, data[w]>>}
              /\ children' = children \cup {<<w, at, data[w]>>}
              /\ wpc' = [wpc EXCEPT ![w] = waitpc]
         ELSE /\ wpc' = [wpc EXCEPT ![w] = skippc]
              /\ UNCHANGED <<effects, children>>

\* WaitCommand for a proc.wait() that returns while the child still runs
WaitCommandNoExit(w, at, nextpc) ==
    /\ Running(w)
    /\ wpc[w] = at
    /\ children' = children
    /\ wpc' = [wpc EXCEPT ![w] = nextpc]
    /\ UNCHANGED <<cfg, nRuns, badRuns, fileData, driverData, wetRun, mainpc,
                   mainI, runqueue, data, fileI, effects, pbsFiles, script,
                   getCount, sentinels, abortCalled>>
    /\ DFrame

\* proc.wait() returns: the child the worker started has exited
WaitCommand(w, at, nextpc) ==
    /\ Running(w)
    /\ wpc[w] = at
    /\ children' = {c \in children : c[1] # w}
    /\ wpc' = [wpc EXCEPT ![w] = nextpc]
    /\ UNCHANGED <<cfg, nRuns, badRuns, fileData, driverData, wetRun, mainpc,
                   mainI, runqueue, data, fileI, effects, pbsFiles, script,
                   getCount, sentinels, abortCalled>>
    /\ DFrame

PreCommand(w) ==
    /\ StartCommand(w, "pre", "precommand", "prewait", "exec")
    /\ UNCHANGED <<cfg, nRuns, badRuns, fileData, driverData, wetRun, mainpc,
                   mainI, runqueue, data, fileI, pbsFiles, script, getCount, sentinels, abortCalled>>
    /\ DFrame

PreWait(w) == WaitCommand(w, "prewait", "exec")

\* "if(driverData['executable'] is None): abort(...)", then the exec block
ExecCommand(w) ==
    /\ IF driverData.executable = None
         THEN /\ Running(w)
              /\ wpc[w] = "exec"
              /\ abort(w)
              /\ UNCHANGED <<effects, children>>
         ELSE /\ StartCommand(w, "exec", "execcommand", "execwait", "post")
              /\ UNCHANGED abortCalled
    /\ UNCHANGED <<cfg, nRuns, badRuns, fileData, driverData, wetRun, mainpc,
                   mainI, runqueue, data, fileI, pbsFiles, script, getCount, sentinels>>
    /\ DFrame

ExecWait(w) == WaitCommand(w, "execwait", "post")

PostCommand(w) ==
    /\ StartCommand(w, "post", "postcommand", "postwait", "get")
    /\ UNCHANGED <<cfg, nRuns, badRuns, fileData, driverData, wetRun, mainpc,
                   mainI, runqueue, data, fileI, pbsFiles, script, getCount, sentinels, abortCalled>>
    /\ DFrame

PostWait(w) == WaitCommand(w, "postwait", "get")

worker(w) ==
    \/ Get(w)
    \/ PrepareWorkDir(w)
    \/ processSingleFile(w)
    \/ RecordPbsFile(w)
    \/ PreCommand(w)
    \/ PreWait(w)
    \/ ExecCommand(w)
    \/ ExecWait(w)
    \/ PostCommand(w)
    \/ PostWait(w)

Main ==
    \/ initDriverData
    \/ PutRun
    \/ FillDone
    \/ StartThread
    \/ PutSentinel
    \/ StartDone
    \/ Poll
    \/ constructPbsSubmitScript

DNext == Main \/ \E w \in Workers : worker(w)

(***************************************************************************)
(* ===================  THE RUN-SPACE EXPANSION  ========================  *)
(***************************************************************************)

\* bounds of the expansion model
\* candidates listed for one variable
MaxCand == 2
\* length of a variableorder list
MaxOrder == 3

VarNames == {"a", "b", "c"}
CandValues == {10, 20}
ParamValue == "static"


\* a YAML value of 'variables': a list of scalars, or one bare scalar
YamlList(l) == [list |-> TRUE, val |-> l]
YamlScalar(x) == [list |-> FALSE, val |-> x]

CandLists == UNION {[1..n -> CandValues] : n \in 0..MaxCand}
YamlValues == {YamlList(l) : l \in CandLists} \cup {YamlScalar(10)}

Orders == UNION {[1..n -> VarNames] : n \in 0..MaxOrder}

\* 'variableorder' and 'parameters' are optional keys of a run section
Absent == [absent |-> TRUE]
Present(x) == [absent |-> FALSE, val |-> x]

RunSections ==
    [variables : UNION {[V -> YamlValues] : V \in SUBSET VarNames},
     variableorder : {Absent} \cup {Present(o) : o \in Orders},
     parameters : {Absent, Present([n \in {"a"} |-> ParamValue])}]

PInit ==
    /\ rdata \in RunSections
    /\ ppc = "initRunData"
    /\ tmp = <<>>

\* the expansion's variables in the specifications that do not run it
PIdle ==
    /\ rdata = [variables |-> <<>>, variableorder |-> Absent, parameters |-> Absent]
    /\ ppc = "idle"
    /\ tmp = <<>>

\* reversed(order)
reversed(order) == [i \in 1..Len(order) |-> order[Len(order) + 1 - i]]

\* itertools.product(*lists): the tuples with one element of each list, the
\* last list cycling fastest
RECURSIVE product(_)
product(lists) ==
    IF lists = <<>> THEN << <<>> >>
    ELSE LET rest == product(Tail(lists))
             RECURSIVE from(_)
             from(i) == IF i > Len(Head(lists)) THEN <<>>
                        ELSE [j \in 1..Len(rest) |-> <<Head(lists)[i]>> \o rest[j]]
                               \o from(i + 1)
         IN  from(1)

\* dict(zip(keys, x)): a key listed twice keeps the value zipped to its last
\* occurrence
dictzip(keys, x) ==
    [k \in Range(keys) |->
        x[CHOOSE i \in 1..Len(keys) :
            /\ keys[i] = k
            /\ \A j \in 1..Len(keys) : keys[j] = k => j <= i]]

\* generateProduct without reversed(...): the product axes in list order
generateProductForward(dicts, order) ==
    LET lists == [i \in 1..Len(order) |-> dicts[order[i]]]
        prod == product(lists)
    IN  [n \in 1..Len(prod) |-> dictzip(order, prod[n])]

generateProduct(dicts, order) ==
    LET lists == [i \in 1..Len(order) |-> dicts[reversed(order)[i]]]
        prod == product(lists)
    IN  [n \in 1..Len(prod) |-> dictzip(reversed(order), prod[n])]

\* all orderings of a set (list(varSet) has an unspecified order)
ListsOfSet(S) ==
    {o \in [1..Cardinality(S) -> S] : \A i, j \in 1..Cardinality(S) : o[i] = o[j] => i = j}

\* varSet == set(rdata['variableorder'])
OrderAccepted(rd) ==
    rd.variableorder.absent \/ DOMAIN rd.variables = Range(rd.variableorder.val)

\* "if(type(...) is not list): ... = [...]"
CoerceToList(y) == IF y.list THEN y.val ELSE <<y.val>>

\* the body of initRunData's loop for one run section
initRunData ==
    /\ ppc = "initRunData"
    /\ IF OrderAccepted(rdata)
         THEN /\ \E o \in (IF rdata.variableorder.absent
                             THEN ListsOfSet(DOMAIN rdata.variables)
                             ELSE {rdata.variableorder.val}) :
                    rdata' = [rdata EXCEPT
                        !.variableorder = Present(o),
                        !.variables = [v \in DOMAIN rdata.variables |->
                                         YamlList(CoerceToList(rdata.variables[v]))]]
              /\ ppc' = "generateProduct"
         ELSE /\ ppc' = "aborted"
              /\ UNCHANGED rdata
    /\ UNCHANGED tmp
    /\ PFrame

\* tmp = generateProduct(runData[r]['variables'],runData[r]['variableorder'])
Expand ==
    /\ ppc = "generateProduct"
    /\ tmp' = generateProduct([v \in DOMAIN rdata.variables |-> rdata.variables[v].val],
                              rdata.variableorder.val)
    /\ ppc' = "update"
    /\ UNCHANGED rdata
    /\ PFrame

\* d.update(p)
update(d, p) ==
    [k \in DOMAIN d \cup DOMAIN p |-> IF k \in DOMAIN p THEN p[k] ELSE d[k]]

\* "if('parameters' in runData[r].keys()): tmp[i].update(...)", then
\* runs.extend(tmp)
MergeParameters ==
    /\ ppc = "update"
    /\ tmp' = IF rdata.parameters.absent THEN tmp
              ELSE [i \in 1..Len(tmp) |-> update(tmp[i], rdata.parameters.val)]
    /\ ppc' = "extended"
    /\ UNCHANGED rdata
    /\ PFrame

PNext == initRunData \/ Expand \/ MergeParameters

(***************************************************************************)
(* =====================  THE INTERPOLATION  ============================  *)
(* Python strings are sequences of one-character strings; positions are    *)
(* Python's (from 0). A Python value carries its type.                     *)
(***************************************************************************)

PyNone == [t |-> "none"]
PyStr(s) == [t |-> "str", v |-> s]
PyInt(n) == [t |-> "int", n |-> n]

\* s[i:j], with Python's treatment of negative and out-of-range positions
slice(s, i, j) ==
    LET norm(k) == IF k < 0 THEN (IF Len(s) + k < 0 THEN 0 ELSE Len(s) + k)
                   ELSE (IF k > Len(s) THEN Len(s) ELSE k)
    IN  SubSeq(s, norm(i) + 1, norm(j))

\* s.startswith(sub, i)
occursAt(s, sub, i) ==
    /\ i >= 0
    /\ i + Len(sub) <= Len(s)
    /\ SubSeq(s, i + 1, i + Len(sub)) = sub

\* s.find(sub, start): the lowest position >= start where sub occurs, or -1
find(s, sub, start) ==
    LET hits == {i \in start..Len(s) : occursAt(s, sub, i)}
    IN  IF hits = {} THEN -1
        ELSE CHOOSE i \in hits : \A j \in hits : i <= j

\* s.replace(old, new): every non-overlapping occurrence, from the left; an
\* empty old matches before every character and at the end
RECURSIVE replaceFrom(_, _, _, _)
replaceFrom(s, old, new, i) ==
    IF old = <<>>
      THEN IF i >= Len(s) THEN new
           ELSE new \o <<s[i + 1]>> \o replaceFrom(s, old, new, i + 1)
      ELSE IF i >= Len(s) THEN <<>>
           ELSE IF occursAt(s, old, i)
                  THEN new \o replaceFrom(s, old, new, i + Len(old))
                  ELSE <<s[i + 1]>> \o replaceFrom(s, old, new, i + 1)

replace(s, old, new) == replaceFrom(s, old, new, 0)

Digits == <<"0", "1", "2", "3", "4", "5", "6", "7", "8", "9">>

\* str(n) for n >= 0
RECURSIVE decimal(_)
decimal(n) ==
    IF n < 10 THEN <<Digits[n + 1]>>
    ELSE decimal(n \div 10) \o <<Digits[(n % 10) + 1]>>

begStr == <<"%", "(">>
endStr == <<")">>

MAX_RECURS == 10

\* the model's values hold these expressions between backticks: a decimal
\* number, or a sum of two
IsNumber(s) ==
    /\ s # <<>>
    /\ \A i \in 1..Len(s) : \E d \in 1..10 : s[i] = Digits[d]
    /\ (Len(s) > 1 => s[1] # "0")

RECURSIVE number(_)
number(s) ==
    IF s = <<>> THEN 0
    ELSE 10 * number(SubSeq(s, 1, Len(s) - 1))
           + ((CHOOSE d \in 1..10 : s[Len(s)] = Digits[d]) - 1)

Ok(v) == [ok |-> TRUE, val |-> v]
Fails(e) == [ok |-> FALSE, err |-> e]

\* the text is an arithmetic expression of the model: decimal numbers joined
\* by "+", where a "+" may also stand before a number as its sign
RECURSIVE IsExpression(_)
IsExpression(s) ==
    LET plus == find(s, <<"+">>, 0)
    IN  IF plus < 0 THEN IsNumber(s)
        ELSE /\ plus = 0 \/ IsNumber(slice(s, 0, plus))
             /\ IsExpression(slice(s, plus + 1, Len(s)))

RECURSIVE value(_)
value(s) ==
    LET plus == find(s, <<"+">>, 0)
    IN  IF plus < 0 THEN number(s)
        ELSE number(slice(s, 0, plus)) + value(slice(s, plus + 1, Len(s)))

\* eval(s): the value, or the exception eval raises on text that is no
\* expression
eval(s) == IF IsExpression(s) THEN Ok(PyInt(value(s))) ELSE Fails("exception")

\* the evaluator character (the grave accent)
Backtick == "BQ"

\* inds: the positions of the evaluator character in inStr
backticks(s) == {i \in 0..(Len(s) - 1) : s[i + 1] = Backtick}

Min(S) == CHOOSE i \in S : \A j \in S : i <= j
Max(S) == CHOOSE i \in S : \A j \in S : j <= i

RECURSIVE evaluateStr(_)
evaluateStr(x) ==
    IF x.t # "str" THEN Ok(x)
    ELSE LET inds == backticks(x.v)
             N == Cardinality(inds)
         IN  IF N = 0 THEN Ok(x)
             ELSE IF N % 2 # 0 THEN Fails("odd")
             ELSE IF N = 2 THEN eval(slice(x.v, 1, -1))
             ELSE evaluateStr(PyStr(slice(x.v, Min(inds) + 1, Max(inds) - 1)))

\* the default conversion, "{}".format(v)
str(v) ==
    CASE v.t = "str" -> v.v
      [] v.t = "int" -> decimal(v.n)
      [] v.t = "none" -> <<"N", "o", "n", "e">>

\* the conversion under a format spec, for the format specs the model uses: the empty
\* one and 'd', which str rejects
format(spec, v) ==
    CASE spec = <<>> -> Ok(str(v))
      [] spec = <<"d">> -> IF v.t = "int" THEN Ok(decimal(v.n))
                          ELSE Fails("exception")

\* fmtLong restricted to the types of the model
fmtLong == [t \in {"int"} |-> <<"d">>]

NoFmt == [absent |-> TRUE]

\* lines 370-375: the inline format, else the format of the value's type,
\* else the default conversion
formatValue(v, inlineFmt, inFmt) ==
    IF ~inlineFmt.absent THEN format(inlineFmt.val, v)
    ELSE IF ~inFmt.absent /\ v.t \in DOMAIN inFmt.val THEN format(inFmt.val[v.t], v)
    ELSE Ok(str(v))

\* the key of getThreadInfo()'s dict, and the name of the calling thread
ThreadKey == <<"t", "h", "r", "e", "a", "d">>
ThreadName == <<"0", "0">>
getThreadInfo == [k \in {ThreadKey} |-> PyStr(ThreadName)]


\* the lookup with the four tests in the opposite order
resolveReversed(subStr, threadInfo) ==
    LET r1 == IF subStr \in DOMAIN driverData THEN driverData[subStr] ELSE PyNone
        r2 == IF subStr \in DOMAIN userData THEN userData[subStr] ELSE r1
        r3 == IF ~inputData.absent /\ subStr \in DOMAIN inputData.val
                THEN inputData.val[subStr] ELSE r2
        r4 == IF subStr \in DOMAIN threadInfo THEN threadInfo[subStr] ELSE r3
    IN  r4

\* lines 346-358: the layers are read from the last to the first, each
\* overwriting what the ones before it found
resolve(subStr, threadInfo) ==
    LET r1 == IF subStr \in DOMAIN threadInfo THEN threadInfo[subStr] ELSE PyNone
        r2 == IF ~inputData.absent /\ subStr \in DOMAIN inputData.val
                THEN inputData.val[subStr] ELSE r1
        r3 == IF subStr \in DOMAIN userData THEN userData[subStr] ELSE r2
        r4 == IF subStr \in DOMAIN driverData THEN driverData[subStr] ELSE r3
    IN  r4

\* "return v" of the call that is running: to the caller's line 363, or out
\* of the outermost call
return(v, callers) ==
    /\ ret' = v
    /\ stack' = callers
    /\ ipc' = IF callers = <<>> THEN "returned" ELSE "resume"

\* abort(msg) called from interpolateString or evaluateStr
iabort(msg) ==
    /\ ipc' = "aborted"
    /\ err' = msg

\* lines 291-308: the entry of a call of interpolateString
Enter ==
    /\ ipc = "enter"
    /\ IF arg.t # "str"
         THEN /\ return(arg, stack)
              /\ UNCHANGED err
         ELSE IF nCalls >= MAX_RECURS
           THEN /\ iabort("recursion")
                /\ UNCHANGED <<stack, ret>>
           ELSE /\ stack' = <<[inStr |-> arg.v, outStr |-> arg.v, countBeg |-> 0,
                               indBeg |-> -1, indEnd |-> -1, inlineFmt |-> NoFmt,
                               nCalls |-> nCalls]>> \o stack
                /\ ipc' = "loop"
                /\ UNCHANGED <<ret, err>>
    /\ UNCHANGED <<userData, inputData, inputFmt, template, round, first, arg,
                   nCalls, tokens>>
    /\ IFrame

\* lines 316-363: one pass of the loop up to the recursive call
Scan ==
    /\ ipc = "loop"
    /\ LET f == Head(stack)
           indBeg == find(f.inStr, begStr, f.countBeg)
           indEnd == IF indBeg >= 0 THEN find(f.inStr, endStr, indBeg + 1)
                     ELSE f.indEnd
           sub0 == slice(f.inStr, indBeg + Len(begStr), indEnd)
           indTmp == find(sub0, <<":">>, 0)
           inlineFmt == IF indTmp >= 0
                          THEN Present(slice(sub0, indTmp + 1, Len(sub0)))
                          ELSE NoFmt
           subStr == IF indTmp >= 0 THEN slice(sub0, 0, indTmp) ELSE sub0
           resolvedValue == resolve(subStr, getThreadInfo)
       IN  IF indBeg < 0
             THEN /\ return(PyStr(f.outStr), Tail(stack))
                  /\ UNCHANGED <<err, arg, nCalls, tokens>>
             ELSE IF indBeg > 0 /\ indEnd < 0
               THEN /\ iabort("malformed")
                    /\ UNCHANGED <<stack, ret, arg, nCalls, tokens>>
               ELSE IF resolvedValue = PyNone
                 THEN /\ iabort("unresolved")
                      /\ tokens' = tokens \cup {<<subStr, resolvedValue>>}
                      /\ UNCHANGED <<stack, ret, arg, nCalls>>
                 ELSE /\ stack' = <<[f EXCEPT !.indBeg = indBeg, !.indEnd = indEnd,
                                              !.inlineFmt = inlineFmt]>> \o Tail(stack)
                      /\ arg' = resolvedValue
                      /\ nCalls' = f.nCalls + 1
                      /\ tokens' = tokens \cup {<<subStr, resolvedValue>>}
                      /\ ipc' = "enter"
                      /\ UNCHANGED <<ret, err>>
    /\ UNCHANGED <<userData, inputData, inputFmt, template, round, first>>
    /\ IFrame

\* bounds of the interpolation model
\* length of the templates enumerated over Alphabet
MaxLen == 5
\* depth of a chain of references
MaxChain == 12
\* length outStr may grow to
MaxOutLen == 16

\* lines 367-382: the rest of the pass, from the return of the recursive
\* call to the next test of the loop
Resume ==
    /\ ipc = "resume"
    /\ LET f == Head(stack)
           ev == evaluateStr(ret)
           fm == formatValue(ev.val, f.inlineFmt, inputFmt)
           outStr == replace(f.outStr, slice(f.inStr, f.indBeg, f.indEnd + 1), fm.val)
       IN  IF ~ev.ok
             THEN /\ IF ev.err = "odd" THEN iabort("odd")
                     ELSE ipc' = "raised" /\ UNCHANGED err
                  /\ UNCHANGED stack
             ELSE IF ~fm.ok
               THEN /\ ipc' = "raised"
                    /\ UNCHANGED <<stack, err>>
               ELSE /\ Len(outStr) <= MaxOutLen
                    /\ stack' = <<[f EXCEPT !.outStr = outStr,
                                            !.countBeg = f.indEnd + 1]>> \o Tail(stack)
                    /\ ipc' = "loop"
                    /\ UNCHANGED err
    /\ UNCHANGED <<userData, inputData, inputFmt, template, round, first, arg,
                   nCalls, ret, tokens>>
    /\ IFrame

\* the caller interpolates the string it got back
Again ==
    /\ ipc = "returned"
    /\ round = 1
    /\ ret.t = "str"
    /\ round' = 2
    /\ first' = ret
    /\ arg' = ret
    /\ nCalls' = 0
    /\ ipc' = "enter"
    /\ UNCHANGED <<userData, inputData, inputFmt, template, stack, ret, err,
                   tokens>>
    /\ IFrame

INext == Enter \/ Scan \/ Resume \/ Again

(***************************************************************************)
(* The calls the model makes                                               *)
(***************************************************************************)

Alphabet == {"%", "(", ")", "a", "b"}
ShortStrings == UNION {[1..n -> Alphabet] : n \in 0..MaxLen}

NoDict == <<>>
token(name) == begStr \o name \o endStr

Call(t, d, u, i, f) ==
    [template |-> t, driver |-> d, user |-> u, input |-> i, fmt |-> f]

\* every short template over three contents of userData
UserDicts ==
    {[k \in {<<"a">>, <<"b">>} |-> IF k = <<"a">> THEN PyStr(<<"%">>) ELSE PyStr(<<"x">>)],
     [k \in {<<"a">>, <<"b">>} |-> IF k = <<"a">> THEN PyStr(token(<<"b">>)) ELSE PyStr(<<"x">>)],
     [k \in {<<"a">>} |-> PyInt(7)]}

ScanCalls == {Call(t, NoDict, u, Absent, NoFmt) : t \in ShortStrings, u \in UserDicts}

\* chains of references k1 -> k2 -> ... -> kd -> terminal value
ChainKey(i) == <<"k">> \o decimal(i)
Chain(d, terminal) ==
    [k \in {ChainKey(i) : i \in 1..d} |->
        LET i == CHOOSE j \in 1..d : ChainKey(j) = k
        IN  IF i < d THEN PyStr(token(ChainKey(i + 1))) ELSE terminal]

ChainTerminals == {PyStr(<<"x">>), PyInt(7)}

ChainCalls ==
    {Call(token(ChainKey(1)), NoDict, Chain(d, v), Absent, NoFmt) :
        d \in 1..MaxChain, v \in ChainTerminals}

\* one name in the layers: in each layer the name is absent, or bound to
\* None, or bound to a value that tells the layer
Layer(name, v) == [k \in {name} |-> v]
LayerDicts(name, mark) == {NoDict, Layer(name, PyNone), Layer(name, PyStr(<<mark>>))}

LayerCallsOf(name) ==
    {Call(token(name), d, u, i, NoFmt) :
        d \in LayerDicts(name, "D"),
        u \in LayerDicts(name, "U"),
        i \in {Absent} \cup {Present(x) : x \in LayerDicts(name, "I")}}

LayerCalls == LayerCallsOf(<<"a">>) \cup LayerCallsOf(ThreadKey)

\* formats and embedded expressions
Expr(s) == <<Backtick>> \o s \o <<Backtick>>
FormatCalls ==
    {Call(t, NoDict, Layer(<<"a">>, v), Absent, f) :
        t \in {token(<<"a">>), token(<<"a", ":", "d">>), token(<<"a", ":">>)},
        v \in {PyInt(7), PyStr(<<"x">>), PyStr(Expr(<<"1", "+", "2">>)),
               PyStr(<<"x">> \o Expr(<<"1">>)), PyStr(<<Backtick, "1">>),
               PyStr(Expr(<<"1">>) \o Expr(<<"2">>))},
        f \in {NoFmt, Present(fmtLong)}}

\* templates made of whole segments: references to a and b and literal text,
\* over a userData whose values hold no reference
\* segments of such a template
MaxSegs == 3
Segments == {token(<<"a">>), token(<<"b">>), <<"(", "b", ")">>, <<"x">>}

RECURSIVE concat(_)
concat(ss) == IF ss = <<>> THEN <<>> ELSE Head(ss) \o concat(Tail(ss))

SpanTemplates == {concat(ss) : ss \in UNION {[1..n -> Segments] : n \in 0..MaxSegs}}
SpanDict ==
    [k \in {<<"a">>, <<"b">>} |-> IF k = <<"a">> THEN PyStr(<<"%">>) ELSE PyStr(<<"x">>)]
SpanCalls == {Call(t, NoDict, SpanDict, Absent, NoFmt) : t \in SpanTemplates}

\* templates with open markers, over a userData whose value is the empty
\* string
\* length of these templates
MaxOpenLen == 4
OpenTemplates == UNION {[1..n -> {"%", "(", "a"}] : n \in 0..MaxOpenLen}
EmptyValueDict == [k \in {<<"a">>} |-> PyStr(<<>>)]
OpenCalls == {Call(t, NoDict, EmptyValueDict, Absent, NoFmt) : t \in OpenTemplates}

Calls == ScanCalls \cup ChainCalls \cup LayerCalls \cup FormatCalls \cup SpanCalls
           \cup OpenCalls

IInit ==
    /\ \E c \in Calls :
        /\ template = c.template
        /\ driverData = c.driver
        /\ userData = c.user
        /\ inputData = c.input
        /\ inputFmt = c.fmt
    /\ round = 1
    /\ first = PyNone
    /\ stack = <<>>
    /\ arg = PyStr(template)
    /\ nCalls = 0
    /\ ipc = "enter"
    /\ ret = PyNone
    /\ err = None
    /\ tokens = {}

\* the interpolation's variables in the specifications that do not run it
IIdle ==
    /\ userData = NoDict
    /\ inputData = Absent
    /\ inputFmt = NoFmt
    /\ template = <<>>
    /\ round = 0
    /\ first = PyNone
    /\ stack = <<>>
    /\ arg = PyNone
    /\ nCalls = 0
    /\ ipc = "idle"
    /\ ret = PyNone
    /\ err = None
    /\ tokens = {}

(***************************************************************************)
(* ===================  THE EXPRESSION EVALUATOR  =======================  *)
(***************************************************************************)

\* longest value handed to evaluateStr
MaxEvalLen == 6

\* the characters of those values: the evaluator character, a digit, "+"
EvalAlphabet == {Backtick, "1", "+"}
EvalStrings == UNION {[1..n -> EvalAlphabet] : n \in 0..MaxEvalLen}

NoResult == Fails("pending")

EInit ==
    /\ evalArg \in EvalStrings
    /\ evalpc = "call"
    /\ evalRet = NoResult

EIdle ==
    /\ evalArg = <<>>
    /\ evalpc = "idle"
    /\ evalRet = NoResult

\* one call evaluateStr(inStr) on a string
Evaluate ==
    /\ evalpc = "call"
    /\ evalRet' = evaluateStr(PyStr(evalArg))
    /\ evalpc' = IF evalRet'.ok THEN "returned" ELSE "failed"
    /\ UNCHANGED evalArg
    /\ EFrame

ENext == Evaluate

(***************************************************************************)
(* ======================  THE FILE RENDERER  ===========================  *)
(***************************************************************************)

\* the value under 'parameters': None, or a dict
FNone == [isNone |-> TRUE]
FDict(d) == [isNone |-> FALSE, dict |-> d]

\* the dicts with keys from K and values from V
Dicts(K, V) == UNION {[D -> V] : D \in SUBSET K}

\* a run instance: variables a, b with candidate values
InstanceDicts == Dicts({"a", "b"}, {1, 2})

\* a file section of the configuration: the type tag and, optionally, the
\* static parameters (a YAML null, or a mapping)
FileSections ==
    [type : {"pbs", "other"},
     parameters : {Absent, Present(FNone)}
                    \cup {Present(FDict(d)) : d \in Dicts({"a", "c"}, {3})}]

FInit ==
    /\ cdata \in FileSections
    /\ instanceData \in InstanceDicts
    /\ fileRec = FileDef(None, FNone)
    /\ renderData = NoDict
    /\ fpc = "initFileData"

FIdle ==
    /\ cdata = [type |-> "other", parameters |-> Absent]
    /\ instanceData = NoDict
    /\ fileRec = FileDef(None, FNone)
    /\ renderData = NoDict
    /\ fpc = "idle"

\* initFileData for one section: the defaults (all None), overwritten by
\* the keys the section gives
initFileData ==
    /\ fpc = "initFileData"
    /\ fileRec' = FileDef(cdata.type,
                          IF cdata.parameters.absent THEN FNone
                          ELSE cdata.parameters.val)
    /\ fpc' = "processSingleFile"
    /\ UNCHANGED <<cdata, instanceData, renderData>>
    /\ FFrame

\* {**a, **b}: the keys of both, the value of b where both have the key
merge(a, b) ==
    [k \in DOMAIN a \cup DOMAIN b |-> IF k \in DOMAIN b THEN b[k] ELSE a[k]]

\* the head of processSingleFile: data = instanceData, and the merge with
\* the file parameters when the key 'parameters' is in the file record,
\* which it always is after initFileData; unpacking None raises TypeError
MergeFileParameters ==
    /\ fpc = "processSingleFile"
    /\ IF "parameters" \in DOMAIN fileRec
         THEN IF fileRec.parameters.isNone
                THEN /\ fpc' = "raised"
                     /\ UNCHANGED renderData
                ELSE /\ renderData' = merge(instanceData, fileRec.parameters.dict)
                     /\ fpc' = "rendered"
         ELSE /\ renderData' = instanceData
              /\ fpc' = "rendered"
    /\ UNCHANGED <<cdata, instanceData, fileRec>>
    /\ FFrame

FNext == initFileData \/ MergeFileParameters

(***************************************************************************)
(* ======================  THE DRIVER SECTION  ==========================  *)
(***************************************************************************)

\* keys of one driver section
MaxKeys == 2

UpperCase == <<"A", "B", "C", "D", "E", "F", "G", "H", "I", "J", "K", "L", "M",
               "N", "O", "P", "Q", "R", "S", "T", "U", "V", "W", "X", "Y", "Z">>
LowerCase == <<"a", "b", "c", "d", "e", "f", "g", "h", "i", "j", "k", "l", "m",
               "n", "o", "p", "q", "r", "s", "t", "u", "v", "w", "x", "y", "z">>

\* str.lower()
lower(s) ==
    [i \in 1..Len(s) |->
        IF \E j \in 1..Len(UpperCase) : UpperCase[j] = s[i]
          THEN LowerCase[CHOOSE j \in 1..Len(UpperCase) : UpperCase[j] = s[i]]
          ELSE s[i]]

\* the keys initDriverData gives a default, as written in the source
DefaultKeys ==
    {<<"c", "w", "d">>,
     <<"s", "c", "r", "i", "p", "t", "d", "i", "r">>,
     <<"e", "x", "e", "c", "u", "t", "a", "b", "l", "e">>,
     <<"r", "u", "n", "d", "i", "r">>,
     <<"t", "e", "m", "p", "l", "a", "t", "e", "f", "i", "l", "e">>,
     <<"p", "a", "r", "a", "m", "f", "i", "l", "e">>,
     <<"t", "e", "m", "p", "l", "a", "t", "e", "d", "i", "r">>,
     <<"t", "y", "p", "e">>,
     <<"d", "r", "y", "r", "u", "n">>,
     <<"n", "t", "h", "r", "e", "a", "d", "s">>,
     <<"p", "r", "e", "c", "o", "m", "m", "a", "n", "d">>,
     <<"e", "x", "e", "c", "c", "o", "m", "m", "a", "n", "d">>,
     <<"p", "o", "s", "t", "c", "o", "m", "m", "a", "n", "d">>,
     <<"p", "b", "s", "_", "s", "u", "b", "m", "i", "t", "s", "c", "r", "i", "p", "t">>,
     <<"p", "b", "s", "_", "s", "u", "b", "c", "o", "m", "m", "a", "n", "d">>,
     <<"i", "n", "t", "F", "m", "t", "L", "o", "n", "g">>,
     <<"f", "l", "t", "F", "m", "t", "L", "o", "n", "g">>,
     <<"i", "n", "t", "F", "m", "t", "S", "h", "o", "r", "t">>,
     <<"f", "l", "t", "F", "m", "t", "S", "h", "o", "r", "t">>}

\* the defaults table: what driverData holds before the key loop (the
\* values themselves play no part in the key test)
DefaultsTable == [k \in DefaultKeys |-> "default"]

\* the keys a driver section is written with: every key of the table as it
\* is spelled there, other spellings, and a key that names no option
SectionKeys ==
    DefaultKeys
      \cup {<<"T", "y", "p", "e">>,
        <<"N", "T", "h", "r", "e", "a", "d", "s">>,
        <<"i", "n", "t", "f", "m", "t", "l", "o", "n", "g">>,
        <<"f", "o", "o">>}

Sections ==
    {sec \in UNION {[1..n -> SectionKeys \X {"v1", "v2"}] : n \in 0..MaxKeys} :
        \A i, j \in 1..Len(sec) : sec[i][1] = sec[j][1] => i = j}

KInit ==
    /\ section \in Sections
    /\ driverData = NoDict
    /\ keyI = 0
    /\ kpc = "defaults"

KIdle ==
    /\ section = <<>>
    /\ keyI = 0
    /\ kpc = "idle"

\* lines 126-149: the defaults
SetDefaults ==
    /\ kpc = "defaults"
    /\ driverData' = DefaultsTable
    /\ keyI' = 1
    /\ kpc' = "keys"
    /\ UNCHANGED section
    /\ KFrame

\* one pass of "for key in cfg[cfgKey]": abort when key.lower() is no key
\* of driverData, else driverData[key.lower()] = cfg[cfgKey][key]
LoadKey ==
    /\ kpc = "keys"
    /\ keyI <= Len(section)
    /\ LET key == section[keyI][1]
       IN  IF lower(key) \notin DOMAIN driverData
             THEN /\ kpc' = "aborted"
                  /\ UNCHANGED <<driverData, keyI>>
             ELSE /\ driverData' = [driverData EXCEPT ![lower(key)] = section[keyI][2]]
                  /\ keyI' = keyI + 1
                  /\ UNCHANGED kpc
    /\ UNCHANGED section
    /\ KFrame

\* the key loop is exhausted
KeysDone ==
    /\ kpc = "keys"
    /\ keyI > Len(section)
    /\ kpc' = "done"
    /\ UNCHANGED <<driverData, section, keyI>>
    /\ KFrame

KNext == SetDefaults \/ LoadKey \/ KeysDone

(***************************************************************************)
(* The specifications                                                      *)
(***************************************************************************)
Init == DInit /\ PIdle /\ IIdle /\ EIdle /\ FIdle /\ KIdle
Next == DNext
Spec == Init /\ [][Next]_vars

\* the dispatcher under fair scheduling: the main thread and every worker
\* thread take a step when they can (a child process started by Popen
\* exits, so proc.wait() returns)
Fairness == WF_vars(Main) /\ \A w \in Workers : WF_vars(worker(w))
SpecFair == Init /\ [][Next]_vars /\ Fairness

ProductInit == PInit /\ DIdle /\ driverData = DriverDefaults /\ IIdle /\ EIdle /\ FIdle /\ KIdle
SpecProduct == ProductInit /\ [][PNext]_vars

InterpInit == IInit /\ DIdle /\ PIdle /\ EIdle /\ FIdle /\ KIdle
SpecInterp == InterpInit /\ [][INext]_vars

\* the interpolation with the calling thread running on
SpecInterpFair == InterpInit /\ [][INext]_vars /\ WF_vars(INext)

EvalInit == EInit /\ DIdle /\ driverData = DriverDefaults /\ PIdle /\ IIdle /\ FIdle /\ KIdle
SpecEval == EvalInit /\ [][ENext]_vars

FileInit == FInit /\ DIdle /\ driverData = DriverDefaults /\ PIdle /\ IIdle /\ EIdle /\ KIdle
SpecFile == FileInit /\ [][FNext]_vars

DriverInit == KInit /\ DIdle /\ PIdle /\ IIdle /\ EIdle /\ FIdle
SpecDriver == DriverInit /\ [][KNext]_vars

(***************************************************************************)
(* ==========================  THE CLAIMS  ==============================  *)
(***************************************************************************)

IsItem(x) == x # Sentinel
QueuedSentinels == Cardinality({i \in 1..Len(runqueue) : runqueue[i] = Sentinel})

RECURSIVE Sum(_, _)
Sum(f, S) == IF S = {} THEN 0
             ELSE LET x == CHOOSE y \in S : TRUE IN f[x] + Sum(f, S \ {x})

\* a worker has called abort, or was ended by an exception
FatalError == abortCalled \/ \E w \in Workers : wpc[w] = "raised"

Processing(w) ==
    wpc[w] \in {"workdir", "files", "record", "pre", "prewait", "exec", "execwait",
                "post", "postwait"}

\* C1: in the queue every run instance lies ahead of every sentinel and the
\* instances lie in the order of the runs list; at most nthreads sentinels
\* are ever put, exactly nthreads once all threads are started; no instance
\* is dequeued twice, and once a worker has returned every instance has been
\* dequeued exactly once; a worker returns exactly when it has dequeued a
\* sentinel, and it dequeues at most one.
C1_DispatchProtocol ==
    /\ \A i, j \in 1..Len(runqueue) :
          i < j =>
            /\ runqueue[i] = Sentinel => runqueue[j] = Sentinel
            /\ IsItem(runqueue[i]) /\ IsItem(runqueue[j]) =>
                  runqueue[i][1] < runqueue[j][1]
    /\ QueuedSentinels + Sum(sentinels, Workers) <= driverData.nthreads
    /\ mainpc \in {"poll", "pbs", "exit"} =>
          QueuedSentinels + Sum(sentinels, Workers) = driverData.nthreads
    /\ \A r \in Runs : getCount[r] <= 1
    /\ \A r \in Runs : getCount[r] = 1 => r <= nRuns
    /\ (\E w \in Workers : wpc[w] = "done") =>
          \A r \in 1..nRuns : getCount[r] = 1
    /\ \A w \in Workers :
          /\ sentinels[w] <= 1
          /\ wpc[w] = "done" <=> sentinels[w] = 1

\* C1 witness: two workers have returned after three instances were
\* dequeued, or three workers after one instance
C1_Witness ==
    /\ nRuns >= 1
    /\ driverData.nthreads >= 2
    /\ \A w \in Threads : wpc[w] = "done"
    /\ \A r \in 1..nRuns : getCount[r] = 1
    /\ runqueue = <<>>

\* C2: in a run without fatal error the batch-script builder starts only
\* when no worker is processing an instance and no run instance is left in
\* the queue.
C2_BuilderAfterWorkers ==
    mainpc = "pbs" /\ ~FatalError =>
        /\ \A w \in Threads : ~Processing(w)
        /\ \A i \in 1..Len(runqueue) : ~IsItem(runqueue[i])

\* C3: with the dry-run flag of the driver section set, a worker does
\* nothing but resolve the working-directory path: no copy, no directory
\* creation, no file write, no command.
C3_DryRunNoEffects ==
    cfg.dryrun => \A e \in effects : e[1] = "workdir"

\* C4: once abort has been called no worker dequeues another instance, no
\* file is rendered and no command started, and the batch-script builder
\* does not run.
C4_AbortStopsAll ==
    [][abortCalled =>
         /\ getCount' = getCount
         /\ effects' = effects
         /\ pbsFiles' = pbsFiles
         /\ ~(mainpc = "pbs" /\ mainpc' = "exit")]_vars

\* the candidates of the variables after initRunData
cand(v) == rdata.variables[v].val
order == rdata.variableorder.val

RECURSIVE ProdOver(_)
ProdOver(S) == IF S = {} THEN 1
               ELSE LET v == CHOOSE x \in S : TRUE
                    IN  Len(cand(v)) * ProdOver(S \ {v})

RECURSIVE ProdUpTo(_)
ProdUpTo(j) == IF j = 0 THEN 1 ELSE Len(cand(order[j])) * ProdUpTo(j - 1)

NoRepeat(o) == \A i, j \in 1..Len(o) : o[i] = o[j] => i = j

\* C5 (an order that names a variable twice asks two candidates of one
\* variable and is outside the statement): the instance at index i (from 0)
\* gives the variable at position j (from 0) of the order its candidate at
\* index (i div (c_0 * ... * c_(j-1))) mod c_j.
C5_OdometerOrder ==
    ppc = "update" /\ NoRepeat(order) =>
        \A i \in 0..(Len(tmp) - 1) : \A j \in 0..(Len(order) - 1) :
            tmp[i + 1][order[j + 1]] =
                cand(order[j + 1])[((i \div ProdUpTo(j)) % Len(cand(order[j + 1]))) + 1]

\* C5 witness: three variables with two distinct candidates each, expanded
\* in an order given by the run section
C5_Witness ==
    /\ ppc = "update"
    /\ NoRepeat(order)
    /\ Len(order) = 3
    /\ \A v \in DOMAIN rdata.variables : cand(v) = <<10, 20>>
    /\ Len(tmp) = 8

\* C6: a run section that passes initRunData yields as many instances as
\* the product of the candidate counts of its variables, each instance
\* giving every variable one of its candidates.
C6_ProductSize ==
    ppc = "update" =>
        /\ Len(tmp) = ProdOver(DOMAIN rdata.variables)
        /\ \A i \in 1..Len(tmp) :
              /\ DOMAIN tmp[i] = DOMAIN rdata.variables
              /\ \A v \in DOMAIN tmp[i] : tmp[i][v] \in Range(cand(v))

HasMarker(s) == find(s, begStr, 0) >= 0

\* C7: when the call on the template returns, its result holds no open
\* marker, and the call on that result returns the result unchanged.
C7_Idempotent ==
    round = 2 =>
        /\ ~HasMarker(first.v)
        /\ ipc \notin {"aborted", "raised"}
        /\ ipc = "returned" => ret = first

\* the first open marker of the template has no closing parenthesis after it
FirstMarkerOpen ==
    /\ HasMarker(template)
    /\ find(template, endStr, find(template, begStr, 0) + 1) < 0

\* C8: a template whose open marker has no closing parenthesis after it
\* makes the call abort with the malformed-string error: the call resolves
\* nothing, returns nothing and aborts in no other way.
C8_MalformedAborts ==
    FirstMarkerOpen =>
        /\ round = 1
        /\ ipc \in {"enter", "loop", "aborted"}
        /\ Len(stack) <= 1
        /\ ipc = "aborted" => err = "malformed"

\* the call is one on a chain of references, and the depth of the chain
IsChainCall == template = token(ChainKey(1)) /\ ChainKey(1) \in DOMAIN userData
ChainDepth == Cardinality(DOMAIN userData)

\* C9: a chain of depth 10 (and of any smaller depth) resolves without
\* abort and a chain of depth 11 never returns, for a terminal value that
\* is text as for one that is a number.
C9_RecursionBoundary ==
    IsChainCall =>
        /\ (ChainDepth <= MAX_RECURS /\ round = 1) => ipc # "aborted"
        /\ ChainDepth = MAX_RECURS + 1 => (round = 1 /\ ipc # "returned")

\* the layers in the order the code documents: driver values, user values,
\* input values, thread context
Layers ==
    <<driverData, userData,
      IF inputData.absent THEN NoDict ELSE inputData.val, getThreadInfo>>

InLayers(n) == {i \in 1..Len(Layers) : n \in DOMAIN Layers[i]}
EarliestValue(n) == Layers[Min(InLayers(n))][n]

\* C10 as amended: a name found in some layer resolves to the value the
\* earliest of these layers holds; the lookup fails as unresolved exactly
\* when the name is in no layer or the earliest layer that has it holds
\* None.
C10_Precedence ==
    /\ \A tk \in tokens :
          /\ InLayers(tk[1]) # {} => tk[2] = EarliestValue(tk[1])
          /\ tk[2] = PyNone <=>
                (InLayers(tk[1]) = {} \/ EarliestValue(tk[1]) = PyNone)
    /\ (ipc = "aborted" /\ err = "unresolved") <=> (\E tk \in tokens : tk[2] = PyNone)

\* C10 witness: the name is bound in the driver, user and input layers and
\* the call returned the driver's value
C10_Witness ==
    /\ ipc = "returned"
    /\ round = 1
    /\ InLayers(<<"a">>) = {1, 2, 3}
    /\ <<<<"a">>, PyStr(<<"D">>)>> \in tokens
    /\ ret = PyStr(<<"D">>)

\* C10 as stated: a lookup fails as unresolved only if the name is absent
\* from every layer.
C10_UnresolvedOnlyIfAbsent ==
    \A tk \in tokens :
        /\ InLayers(tk[1]) # {} => tk[2] = EarliestValue(tk[1])
        /\ (ipc = "aborted" /\ err = "unresolved" /\ tk[2] = PyNone) =>
              InLayers(tk[1]) = {}

(***************************************************************************)
(* C11..C14: the commands of an instance and the life of the pool          *)
(***************************************************************************)

\* the command block k has been started for instance r
Started(k, r) == <<k, r>> \in effects

\* worker w starts the child of command k for instance r in this step
Starts(w, k, r) == <<w, k, r>> \in children' /\ <<w, k, r>> \notin children

\* the configured commands that come before k in the loop body
Before(k) ==
    {j \in ProcKinds :
        /\ driverData[j \o "command"] # None
        /\ \/ j = "pre" /\ k \in {"exec", "post"}
           \/ j = "exec" /\ k = "post"}

\* C11: for every instance a worker processes, the configured pre, exec and
\* post commands are started in that order: a command starts only when the
\* worker has no child still running (the previous command, or the post
\* command of its previous instance, has exited), every configured command
\* that comes earlier for the instance has been started, and none that
\* comes later has
C11_CommandOrder ==
    [][\A w \in Workers : \A k \in ProcKinds : \A r \in Runs :
          Starts(w, k, r) =>
             /\ r = data[w]
             /\ \A c \in children : c[1] # w
             /\ \A j \in Before(k) : Started(j, r)
             /\ \A j \in ProcKinds : k \in Before(j) \/ j = k => ~Started(j, r)]_vars

\* a worker runs the post command of its second instance, after all three
\* commands of its first
C11_Witness ==
    \E w \in Workers : \E r, r2 \in Runs :
        /\ r # r2
        /\ <<w, "post", r2>> \in children
        /\ Started("pre", r2) /\ Started("exec", r2)
        /\ Started("pre", r) /\ Started("exec", r) /\ Started("post", r)
        /\ cfg.nthreads = 1

\* worker w is about to call runqueue.get()
AtGet(w) == Running(w) /\ wpc[w] = "get"

\* C12 as stated: whenever a worker calls runqueue.get() the queue is
\* non-empty
C12_GetNeverBlocks == \A w \in Workers : AtGet(w) => runqueue # <<>>

\* C12, amended: a worker calling runqueue.get() finds the queue empty only
\* while the main thread is between a thread.start() and the put of that
\* thread's sentinel; in every other state the queue holds at least one
\* sentinel for each live worker
C12_EmptyOnlyBeforeSentinel ==
    /\ \A w \in Workers : AtGet(w) /\ runqueue = <<>> => mainpc = "sentinel"
    /\ QueuedSentinels + (IF mainpc = "sentinel" THEN 1 ELSE 0)
          >= Cardinality({w \in Workers : isAlive(w)})

\* the second of two workers was started, its sentinel is not yet put, and
\* the queue is already drained
C12_Witness ==
    /\ mainpc = "sentinel"
    /\ mainI = 2
    /\ nRuns > 0
    /\ runqueue = <<>>
    /\ AtGet(2)

\* every worker of the pool has dequeued a sentinel and returned
AllDone == \A w \in 1..cfg.nthreads : wpc[w] = "done"

\* C13: when no fatal error occurs, under fair scheduling every one of the
\* N workers eventually dequeues a sentinel and terminates
C13_PoolShutdown == <>(FatalError \/ AllDone)

\* the running children of worker w
ChildrenOf(w) == {c \in children : c[1] = w}

\* C14: in every reachable state at most N external child processes run,
\* N the configured worker count, and each worker has at most one of them
C14_BoundedChildren ==
    /\ Cardinality(children) <= cfg.nthreads
    /\ \A w \in Workers : Cardinality(ChildrenOf(w)) <= 1

\* two workers, each with its child running
C14_Witness ==
    /\ cfg.nthreads >= 2
    /\ Cardinality(children) = cfg.nthreads
    /\ \A w \in 1..cfg.nthreads : Cardinality(ChildrenOf(w)) = 1

(***************************************************************************)
(* C15, C16: evaluateStr                                                   *)
(***************************************************************************)

\* the number of evaluator characters in the value of the call
NBackticks == Cardinality(backticks(evalArg))

\* C15: evaluateStr applied to a value with more than one backtick pair (an
\* even count of 4 or more) fails and never returns a value
C15_NestingRejected ==
    evalpc # "call" /\ NBackticks >= 4 /\ NBackticks % 2 = 0 => evalpc = "failed"

\* the text between the two backticks of a value that holds one pair
Enclosed == slice(evalArg, Min(backticks(evalArg)) + 1, Max(backticks(evalArg)))

\* the value with the pair and the text it encloses replaced by the result
\* of the evaluation: the result itself when the pair spans the value
Substituted ==
    LET i == Min(backticks(evalArg))
        j == Max(backticks(evalArg))
        r == eval(Enclosed).val
    IN  IF i = 0 /\ j = Len(evalArg) - 1 THEN r
        ELSE PyStr(slice(evalArg, 0, i) \o str(r) \o slice(evalArg, j + 1, Len(evalArg)))

\* C16: evaluateStr returns a value without backticks unchanged, aborts on
\* an odd number of backticks and, for a value with one pair, evaluates the
\* text enclosed between the two backticks, wherever the pair occurs in the
\* value, and substitutes the result
C16_Delimiting ==
    evalpc # "call" =>
       /\ NBackticks = 0 => evalRet = Ok(PyStr(evalArg))
       /\ NBackticks % 2 = 1 => evalRet = Fails("odd")
       /\ NBackticks = 2 /\ eval(Enclosed).ok => evalRet = Ok(Substituted)

(***************************************************************************)
(* C17: the merge of instance data and file parameters                     *)
(***************************************************************************)

\* the file section declares static parameters
DeclaresParameters == ~cdata.parameters.absent /\ ~cdata.parameters.val.isNone

\* C17: processSingleFile renders a file definition that declares no static
\* parameters with the instance data alone, without error, and one that
\* declares parameters with the merge of instance data and file parameters
\* in which the file value wins on a key of both
C17_RenderMerge ==
    fpc \in {"rendered", "raised"} =>
       /\ fpc = "rendered"
       /\ ~DeclaresParameters => renderData = instanceData
       /\ DeclaresParameters =>
             /\ DOMAIN renderData = DOMAIN instanceData \cup DOMAIN cdata.parameters.val.dict
             /\ \A k \in DOMAIN renderData :
                   renderData[k] = IF k \in DOMAIN cdata.parameters.val.dict
                                     THEN cdata.parameters.val.dict[k]
                                     ELSE instanceData[k]

(***************************************************************************)
(* C18: what a call of interpolateString returns                           *)
(***************************************************************************)

\* the text of s from position pos on, with every reference replaced at its
\* own position by the value userData holds for its name
RECURSIVE SpanReplaced(_, _)
SpanReplaced(s, pos) ==
    LET b == find(s, begStr, pos)
        e == find(s, endStr, b + 1)
    IN  IF b < 0 THEN slice(s, pos, Len(s))
        ELSE slice(s, pos, b) \o str(userData[slice(s, b + Len(begStr), e)])
               \o SpanReplaced(s, e + 1)

\* C18: the output of interpolateString is the template with each reference
\* replaced, at its own position, by its formatted resolved value; the
\* literal text and the text of earlier substitutions are unchanged
C18_SpanReplacement ==
    /\ template \in SpanTemplates
    /\ userData = SpanDict
    /\ round = 1
    /\ ipc = "returned"
    => ret = PyStr(SpanReplaced(template, 0))

(***************************************************************************)
(* C19: pbsFiles and the submit script                                     *)
(***************************************************************************)

\* the outputs of type 'pbs' written so far: <<instance, file>>
PbsRendered ==
    {<<e[2], e[3]>> : e \in {x \in effects : x[1] = "write" /\ fileData[x[3]].type = "pbs"}}

\* C19: pbsFiles holds one entry per rendered file of type 'pbs' and no
\* other; the script written holds one line per entry of pbsFiles, in list
\* order, after the header; and in a run without fatal error every output
\* of type 'pbs' rendered by any worker for any instance is in the script
C19_BatchRecording ==
    /\ \A i \in 1..Len(pbsFiles) :
          /\ pbsFiles[i] \in PbsRendered
          /\ \A j \in 1..Len(pbsFiles) : pbsFiles[i] = pbsFiles[j] => i = j
    /\ mainpc = "exit" =>
          /\ script = IF pbsFiles = <<>> THEN <<>> ELSE PbsLines
          /\ ~FatalError =>
                \A x \in PbsRendered : \E i \in 1..Len(script) : script[i] = <<"cd", x>>

(***************************************************************************)
(* C20: the keys of the driver section                                     *)
(***************************************************************************)

\* the accepted options that key names: the keys of the defaults table it
\* equals, letter case apart
OptionsNamed(key) == {d \in DefaultKeys : lower(d) = lower(key)}

\* C20: initDriverData accepts a key of the driver section exactly when it
\* names an accepted option, one of the keys of the defaults table (the
\* format options intFmtLong, fltFmtLong, intFmtShort and fltFmtShort
\* among them), and then the configured value replaces the default of that
\* option; it aborts only at a key that names no accepted option
C20_KeyValidation ==
    /\ kpc = "aborted" => OptionsNamed(section[keyI][1]) = {}
    /\ kpc = "done" =>
          \A i \in 1..Len(section) :
             /\ OptionsNamed(section[i][1]) # {}
             /\ \A d \in OptionsNamed(section[i][1]) :
                   (\A j \in (i + 1)..Len(section) : d \notin OptionsNamed(section[j][1]))
                      => driverData[d] = section[i][2]

(***************************************************************************)
(* C21: the scanning loop                                                  *)
(***************************************************************************)

\* the pass in progress would make outStr longer than the model follows
Outgrown ==
    /\ ipc = "resume"
    /\ LET f == Head(stack)
           ev == evaluateStr(ret)
       IN  /\ ev.ok
           /\ LET fm == formatValue(ev.val, f.inlineFmt, inputFmt)
              IN  /\ fm.ok
                  /\ Len(replace(f.outStr, slice(f.inStr, f.indBeg, f.indEnd + 1),
                                 fm.val)) > MaxOutLen

\* C21: every call of interpolateString returns or aborts (or is ended by
\* an exception) after finitely many passes of the scanning loop
C21_Terminates == <>(ipc \in {"returned", "aborted", "raised"} \/ Outgrown)


====
